---------------------------- MODULE Spec2Model ----------------------------
(***************************************************************************)
(* A model of the label-timeline reconstruction and signal/label           *)
(* synchronisation scripts of the PPG sleep-staging repository:            *)
(*                                                                         *)
(*   restructure_labels.py      the annotation parser and the label        *)
(*                              timeline normaliser (one batch loop with   *)
(*                              no exception handler);                     *)
(*   preprocessing/join_data.py the signal/label aligner (one batch loop   *)
(*                              with a try/except per recording);          *)
(*   restructure_ppg_data.py    the extraction of the PLETH signal of each *)
(*                              EDF file to a CSV file (one batch loop     *)
(*                              with a try/except per file);               *)
(*   filtering_and_preprocessing.py  the filtering of every epoch matrix   *)
(*                              in three variants (three batch loops, one  *)
(*                              after the other, with no exception         *)
(*                              handler).                                  *)
(*                                                                         *)
(* Five specifications share the module: SpecInfer runs the gap-inference  *)
(* loop of restructure_labels.py one index at a time over a bounded label  *)
(* column, SpecLabels runs the whole restructure_labels.py batch, SpecJoin *)
(* the whole join_data.py batch, SpecEdf the whole restructure_ppg_data.py *)
(* batch and SpecFilter the whole filtering_and_preprocessing.py run.      *)
(***************************************************************************)
EXTENDS Integers, Sequences, FiniteSets, TLC

VARIABLES
    \* ---- the gap-inference loop on its own (restructure_labels.py 104-119)
    ipc,            \* "loop" while the for loop runs, "done" after it
    iorig,          \* the Event column before the loop
    ievent,         \* the Event column the loop writes in place
    ii,             \* the loop index i (0-based, as in the code)
    \* ---- restructure_labels.py
    lpc,            \* "top" | "body" | "bottom" | "aborted" | "done"
    lnfiles,        \* number of .txt files os.listdir yields
    lpos,           \* number of files the for statement has taken
    lin,            \* the transcript of the current iteration
    df,             \* the script's variable df (it outlives an iteration)
    lout,           \* the table written in the current iteration
    lmissing,       \* missing_values_count of the current iteration
    lexc,           \* the exception that ended the script ("none" if none)
    \* ---- preprocessing/join_data.py
    jpc,            \* "top" | "body" | "bottom" | "done"
    jnfiles,        \* number of entries os.listdir yields
    jpos,           \* number of entries the for statement has taken
    jin,            \* the recording (label file, sample file) of the iteration
    jout,           \* the matrix written in the current iteration
    jres,           \* how the current iteration ended
    failed_files,   \* the script's list failed_files
    jwritten,       \* names of the combined files written so far
    \* ---- restructure_ppg_data.py
    epc,            \* "top" | "body" | "bottom" | "done"
    enfiles,        \* number of entries os.listdir yields
    epos,           \* number of entries the for statement has taken
    ein,            \* the EDF file of the current iteration
    eout,           \* the CSV file written in the current iteration
    ppg_failed_files,   \* the script's list failed_files
    ewritten,       \* names of the CSV files written so far
    \* ---- filtering_and_preprocessing.py
    fpc,            \* "top" | "body" | "bottom" | "aborted" | "done"
    fvariant,       \* the loop that runs: 1 (V1), 2 (V2) or 3 (V3)
    fdir,           \* the entries of data_folder_path, in listing order
    fpos,           \* number of entries the for statement has taken
    fout,           \* the matrix written in the current iteration
    fwritten,       \* <<variant, entry>> of the files written so far
    fexc            \* the exception that ended the script ("none" if none)

ivars == <<ipc, iorig, ievent, ii>>
lvars == <<lpc, lnfiles, lpos, lin, df, lout, lmissing, lexc>>
jvars == <<jpc, jnfiles, jpos, jin, jout, jres, failed_files, jwritten>>
evars == <<epc, enfiles, epos, ein, eout, ppg_failed_files, ewritten>>
fvars == <<fpc, fvariant, fdir, fpos, fout, fwritten, fexc>>
vars  == <<ivars, lvars, jvars, evars, fvars>>

(***************************************************************************)
(* Bounds of the model.                                                    *)
(***************************************************************************)
MaxGrid   == 8      \* longest Event column over three values
MaxLongGrid == 11   \* longest Event column over two values
MaxFiles  == 2      \* most directory entries in a batch
MaxRows   == 2      \* most data rows of a transcript
MaxLabels == 4      \* most rows of a label file the aligner reads
MaxEpochs == 4      \* most whole 30 s blocks of samples in a sample file

(***************************************************************************)
(* Program constants.                                                      *)
(***************************************************************************)
window_size     == 3        \* restructure_labels.py:106
interval        == 30       \* restructure_labels.py:85 (seconds)
DaySeconds      == 86400    \* timedelta(days=1), restructure_labels.py:80
sample_rate     == 128      \* join_data.py:56
epoch_seconds   == 30       \* join_data.py:66, 76, 80
fs              == 128      \* filtering_and_preprocessing.py:40
epoch_duration  == 30       \* filtering_and_preprocessing.py:41
ma_window_size  == 10       \* filtering_and_preprocessing.py:42 (window_size)

Min(a, b) == IF a <= b THEN a ELSE b

(***************************************************************************)
(* StageCode values: -1 is the sentinel for "no label".                    *)
(***************************************************************************)
Sentinel == 0 - 1
RealStages == 0 .. 5
StageCodes == {Sentinel} \cup RealStages

(***************************************************************************)
(* Gap inference, restructure_labels.py lines 109-119.  Columns are        *)
(* 1-based sequences here; the code's index i is position i + 1.           *)
(***************************************************************************)
\* df.loc[a:b, 'Event'] with label-based, inclusive bounds (0-based a, b).
LocSlice(ev, a, b) == [k \in 1 .. (b - a + 1) |-> ev[a + k]]

AllEqualFirst(s) == \A k \in 1 .. Len(s) : s[k] = s[1]

\* The condition of line 117.
WindowAgrees(ev, i) ==
    LET prev_values == LocSlice(ev, i - window_size, i - 1)
        next_values == LocSlice(ev, i + 1, i + window_size)
    IN  /\ AllEqualFirst(prev_values)
        /\ AllEqualFirst(next_values)
        /\ prev_values[1] = next_values[1]
        /\ prev_values[1] # Sentinel

\* A plausible slip: the two sides are not compared with each other.
InferBodyNoCrossTest(ev, i) ==
    LET prev_values == LocSlice(ev, i - window_size, i - 1)
        next_values == LocSlice(ev, i + 1, i + window_size)
    IN  IF /\ ev[i + 1] = Sentinel
           /\ AllEqualFirst(prev_values)
           /\ AllEqualFirst(next_values)
           /\ prev_values[1] # Sentinel
        THEN [ev EXCEPT ![i + 1] = prev_values[1]]
        ELSE ev

\* A plausible slip: only the rows after the gap are looked at.
InferBodyNextOnly(ev, i) ==
    LET next_values == LocSlice(ev, i + 1, i + window_size)
    IN  IF /\ ev[i + 1] = Sentinel
           /\ AllEqualFirst(next_values)
           /\ next_values[1] # Sentinel
        THEN [ev EXCEPT ![i + 1] = next_values[1]]
        ELSE ev

\* A plausible slip: only the rows before the gap are looked at.
InferBodyPrevOnly(ev, i) ==
    LET prev_values == LocSlice(ev, i - window_size, i - 1)
    IN  IF /\ ev[i + 1] = Sentinel
           /\ AllEqualFirst(prev_values)
           /\ prev_values[1] # Sentinel
        THEN [ev EXCEPT ![i + 1] = prev_values[1]]
        ELSE ev

\* A plausible slip: the test of line 111 is missing, so a position is
\* overwritten whenever its two sides agree.
InferBodyAnyPosition(ev, i) ==
    IF WindowAgrees(ev, i)
    THEN [ev EXCEPT ![i + 1] = LocSlice(ev, i - window_size, i - 1)[1]]
    ELSE ev

\* One iteration of the loop body (lines 111-119) at index i.
InferBody(ev, i) ==
    IF ev[i + 1] = Sentinel /\ WindowAgrees(ev, i)
    THEN [ev EXCEPT ![i + 1] = LocSlice(ev, i - window_size, i - 1)[1]]
    ELSE ev

\* range(window_size, len(df) - window_size): the indices still to visit.
InferRange(ev) == window_size .. (Len(ev) - window_size - 1)

RECURSIVE InferFrom(_, _)
InferFrom(ev, i) ==
    IF i \in InferRange(ev) THEN InferFrom(InferBody(ev, i), i + 1) ELSE ev

\* The whole loop of lines 109-119.
InferGaps(ev) == InferFrom(ev, window_size)

\* The Event column before the loop: every column of stages 0, 1 and gaps
\* up to MaxGrid rows, and every longer column of stage 0 and gaps up to
\* MaxLongGrid rows (long enough for the loop to fill two gaps).
InitInfer ==
    /\ ipc = "loop"
    /\ \/ \E n \in 0 .. MaxGrid : iorig \in [1 .. n -> {Sentinel, 0, 1}]
       \/ \E n \in (MaxGrid + 1) .. MaxLongGrid :
              iorig \in [1 .. n -> {Sentinel, 0}]
    /\ ievent = iorig
    /\ ii = window_size

IdleInfer ==
    /\ ipc = "idle"
    /\ iorig = <<>>
    /\ ievent = <<>>
    /\ ii = 0

InferStep ==
    /\ ipc = "loop"
    /\ ii \in InferRange(ievent)
    /\ ievent' = InferBody(ievent, ii)
    /\ ii' = ii + 1
    /\ UNCHANGED <<ipc, iorig, lvars, jvars, evars, fvars>>

InferExit ==
    /\ ipc = "loop"
    /\ ii \notin InferRange(ievent)
    /\ ipc' = "done"
    /\ UNCHANGED <<iorig, ievent, ii, lvars, jvars, evars, fvars>>

(***************************************************************************)
(* restructure_labels.py: transcripts.  A transcript is a sequence of      *)
(* lines; a line records whether the text "Sleep Stage" occurs in it and   *)
(* the fields line.strip().split('\t') yields for it (line 51).  A field   *)
(* is a text; a time text "hh.mm.ss" or "hh:mm:ss" keeps its separator and *)
(* its three numbers.                                                      *)
(***************************************************************************)
Txt(x) == [s |-> x, hms |-> <<>>]
TimeText(sep, t) == [s |-> sep, hms |-> <<t \div 3600, (t \div 60) % 60, t % 60>>]
NoneField == Txt("None")

Tokens ==
    <<"SLEEP-S0", "SLEEP-S1", "SLEEP-S2", "SLEEP-S3", "SLEEP-S4", "SLEEP-REM",
      "SLEEP-S5", "MCAP-A1">>

HeaderLine(cols) ==
    [marker |-> TRUE,
     fields |->
        IF cols = 6
        THEN <<Txt("Sleep Stage"), Txt("Position"), Txt("Time [hh:mm:ss]"),
               Txt("Event"), Txt("Duration[s]"), Txt("Location")>>
        ELSE IF cols = 5
        THEN <<Txt("Sleep Stage"), Txt("Time [hh:mm:ss]"), Txt("Event"),
               Txt("Duration[s]"), Txt("Location")>>
        ELSE <<Txt("Sleep Stage"), Txt("Time [hh:mm:ss]"), Txt("Event"),
               Txt("Duration[s]")>>]

DataLine(cols, sep, t, tok) ==
    [marker |-> FALSE,
     fields |->
        IF cols = 6
        THEN <<Txt("W"), Txt("Supine"), TimeText(sep, t), Txt(tok), Txt("30"),
               Txt("ROC-LOC")>>
        ELSE IF cols = 5
        THEN <<Txt("W"), TimeText(sep, t), Txt(tok), Txt("30"), Txt("ROC-LOC")>>
        ELSE <<Txt("W"), TimeText(sep, t), Txt(tok), Txt("30")>>]

PreambleLine == [marker |-> FALSE, fields |-> <<Txt("Recording Date:")>>]

\* The transcripts the batch is drawn from: pre preamble lines, a header line
\* (when marker), and the data rows rows[k] = <<time of day, token>>.
MkTranscript(pre, marker, cols, sep, rows) ==
    [k \in 1 .. pre |-> PreambleLine]
    \o (IF marker THEN <<HeaderLine(cols)>> ELSE <<>>)
    \o [k \in 1 .. Len(rows) |-> DataLine(cols, sep, rows[k][1], rows[k][2])]

\* 23:59:00: a recording of 60 s or more crosses midnight.
StartTimes == {86340}
PreambleCounts == {0, 1}
Deltas == {0, 30, 45, 60}
TokenAt(k) == Tokens[((k - 1) % Len(Tokens)) + 1]

\* Data rows in chronological order: the first at `start`, each later one
\* `d` seconds after the one before it (past midnight the time of day wraps).
RECURSIVE RowTimes(_, _)
RowTimes(start, ds) ==
    IF ds = <<>> THEN <<start>>
    ELSE <<start>> \o RowTimes((start + Head(ds)) % DaySeconds, Tail(ds))

RowSeqs ==
    {<<>>} \cup
    UNION { { LET ts == RowTimes(start, ds)
              IN  [k \in 1 .. n |-> <<ts[k], TokenAt(tk + k - 1)>>]
              : start \in StartTimes, ds \in [1 .. (n - 1) -> Deltas],
                tk \in 1 .. Len(Tokens) }
            : n \in 1 .. MaxRows }

\* With a header line of 4, 5 or 6 fields, or with no header line at all.
Layouts ==
    {[marker |-> TRUE, cols |-> c] : c \in {4, 5, 6}}
    \cup {[marker |-> FALSE, cols |-> 5]}

Transcripts ==
    { MkTranscript(pre, lay.marker, lay.cols, sep, rows) :
        pre \in PreambleCounts, lay \in Layouts, sep \in {".", ":"},
        rows \in RowSeqs }

(***************************************************************************)
(* restructure_labels.py lines 43-62: the annotation parser.               *)
(***************************************************************************)
\* Index of the first line containing "Sleep Stage", 0 when there is none.
FirstMarker(lines) ==
    IF \E k \in 1 .. Len(lines) : lines[k].marker
    THEN CHOOSE k \in 1 .. Len(lines) :
            /\ lines[k].marker
            /\ \A j \in 1 .. (k - 1) : ~lines[j].marker
    ELSE 0

\* labels_table of lines 43-51: the fields of the marker line and of every
\* line after it.
LabelsTable(lines) ==
    LET k == FirstMarker(lines)
    IN  IF k = 0 THEN <<>>
        ELSE [j \in 1 .. (Len(lines) - k + 1) |-> lines[k + j - 1].fields]

\* pd.DataFrame(rows, columns=...) pads a short row with None.
FieldAt(row, k) == IF k <= Len(row) THEN row[k] ELSE NoneField

\* A plausible slip: the 6-column layout is read with the positions of the
\* 5-column one, so Position is taken for the time.
FramePositionKept(table, col_num) ==
    [j \in 1 .. Len(table) |->
        [Time |-> FieldAt(table[j], 2), Event |-> FieldAt(table[j], 3)]]

\* Lines 55-60, keeping the two columns the script goes on to use.  In the
\* 6-column layout Position is field 2 and is dropped by the selection.
Frame(table, col_num) ==
    [j \in 1 .. Len(table) |->
        IF col_num = 6
        THEN [Time |-> FieldAt(table[j], 3), Event |-> FieldAt(table[j], 4)]
        ELSE [Time |-> FieldAt(table[j], 2), Event |-> FieldAt(table[j], 3)]]

\* df.tail(-1): every row but the first.
TailMinus1(rows) == IF rows = <<>> THEN <<>> ELSE Tail(rows)

\* The regular expression of line 66, for the event texts of the model.
FilterPatterns ==
    {"SLEEP-S0", "SLEEP-S1", "SLEEP-S2", "SLEEP-S3", "SLEEP-S4", "SLEEP-S5",
     "SLEEP-REM"}

EventMatches(field) == field.hms = <<>> /\ field.s \in FilterPatterns

\* Line 66.
FilterEvents(rows) == SelectSeq(rows, LAMBDA r : EventMatches(r.Event))

\* Lines 69-72: '.' becomes ':' and the text is parsed with %H:%M:%S to a
\* datetime on 1900-01-01, here the number of seconds since 1900-01-01 00:00.
IsTimeText(field) ==
    /\ Len(field.hms) = 3
    /\ field.hms[1] \in 0 .. 23
    /\ field.hms[2] \in 0 .. 59
    /\ field.hms[3] \in 0 .. 59

ParseTime(field) == field.hms[1] * 3600 + field.hms[2] * 60 + field.hms[3]

\* datetime.time(): the time of day of a datetime.
TimeOfDay(dt) == dt % DaySeconds

\* Lines 79-80.
EndTime(start_time, end_time) ==
    IF TimeOfDay(end_time) < TimeOfDay(start_time)
    THEN end_time + DaySeconds
    ELSE end_time

\* Lines 85-86: pd.date_range(start, end, freq=30 s), both ends inclusive.
DateRange(start_time, end_time) ==
    IF end_time < start_time THEN <<>>
    ELSE [k \in 1 .. ((end_time - start_time) \div interval + 1) |->
            start_time + (k - 1) * interval]

\* Line 91: the date of every grid point is set back to 1900-01-01.
ReplaceDate(dt) == TimeOfDay(dt)

\* Lines 94-97: the left join on the time column.  A grid point takes every
\* row of df with its time, in df's order; one with no such row takes one row
\* whose Event is filled with -1.
RECURSIVE MergeLeft(_, _)
MergeLeft(grid, rows) ==
    IF grid = <<>> THEN <<>>
    ELSE LET g == Head(grid)
             hits == SelectSeq(rows, LAMBDA r : r.Time = g)
         IN  (IF hits = <<>>
              THEN <<[Time |-> g, Event |-> "-1"]>>
              ELSE [k \in 1 .. Len(hits) |->
                        [Time |-> g, Event |-> hits[k].Event]])
             \o MergeLeft(Tail(grid), rows)

\* Line 102: the replace map; astype(float) then fails on any other text.
EventCode(tok) ==
    CASE tok = "SLEEP-S0"  -> 0
      [] tok = "SLEEP-S1"  -> 1
      [] tok = "SLEEP-S2"  -> 2
      [] tok = "SLEEP-S3"  -> 3
      [] tok = "SLEEP-S4"  -> 4
      [] tok = "SLEEP-REM" -> 5
      [] tok = "-1"        -> Sentinel
      [] OTHER             -> 99

IsFloatText(tok) == EventCode(tok) # 99

\* Lines 122-128: the column back to texts.
EventText(x) ==
    CASE x = 0 -> "SLEEP-S0"
      [] x = 1 -> "SLEEP-S1"
      [] x = 2 -> "SLEEP-S2"
      [] x = 3 -> "SLEEP-S3"
      [] x = 4 -> "SLEEP-S4"
      [] x = 5 -> "SLEEP-REM"
      [] OTHER -> "-1"

\* Lines 167-172: the six texts become numbers; the text '-1' is not
\* replaced.  The model writes the text '-1' as the number -1.
EventNumber(txt) ==
    CASE txt = "SLEEP-S0"  -> 0
      [] txt = "SLEEP-S1"  -> 1
      [] txt = "SLEEP-S2"  -> 2
      [] txt = "SLEEP-S3"  -> 3
      [] txt = "SLEEP-S4"  -> 4
      [] txt = "SLEEP-REM" -> 5
      [] OTHER             -> Sentinel

\* Line 181: strftime('%H:%M:%S').
Strftime(dt) ==
    LET t == TimeOfDay(dt) IN <<t \div 3600, (t \div 60) % 60, t % 60>>

(***************************************************************************)
(* Lines 183-207: the four grouping columns, each a chain of               *)
(* Series.replace(old, new) calls applied to a copy of Event.  The text    *)
(* '-1' (here -1) equals none of the numbers replaced.                     *)
(***************************************************************************)
Replace(v, old, new) == IF v = old THEN new ELSE v

SleepWake(v) == Replace(Replace(Replace(Replace(v, 2, 1), 3, 1), 4, 1), 5, 1)

Stages3(v) == Replace(Replace(Replace(Replace(v, 2, 1), 3, 1), 4, 1), 5, 2)

\* A plausible slip: 3 -> 2 is applied before 2 -> 1, so 3 ends as 1.
Stages4Reordered(v) ==
    Replace(Replace(Replace(Replace(v, 3, 2), 2, 1), 4, 2), 5, 3)

Stages4(v) == Replace(Replace(Replace(Replace(v, 2, 1), 3, 2), 4, 2), 5, 3)

Stages5(v) == Replace(Replace(v, 4, 3), 5, 4)

Unbound == [kind |-> "unbound", rows |-> <<>>]

Raised(e) == [exc |-> e, table |-> <<>>, missing |-> 0]

\* Lines 69-76: the parsed rows, as (datetime, event text).
ParsedRows(kept) ==
    [k \in 1 .. Len(kept) |->
        [Time |-> ParseTime(kept[k].Time), Event |-> kept[k].Event.s]]

\* Lines 75-91: the grid of the parsed rows.
Grid(parsed) ==
    LET start_time == parsed[1].Time
        end_time == EndTime(start_time, parsed[Len(parsed)].Time)
        all_times == DateRange(start_time, end_time)
    IN  [k \in 1 .. Len(all_times) |-> ReplaceDate(all_times[k])]

\* Lines 165-207: the table that is written.
FinalTable(times, ev) ==
    [k \in 1 .. Len(ev) |->
        [Time       |-> Strftime(times[k]),
         Event      |-> ev[k],
         sleep_wake |-> SleepWake(ev[k]),
         stages3    |-> Stages3(ev[k]),
         stages4    |-> Stages4(ev[k]),
         stages5    |-> Stages5(ev[k])]]

\* Lines 64-217 on a frame built in this iteration.
Normalise(rows) ==
    LET kept == FilterEvents(rows)
    IN  IF \E k \in 1 .. Len(kept) : ~IsTimeText(kept[k].Time)
        THEN Raised("ValueError")                           \* line 72
        ELSE IF kept = <<>> THEN Raised("IndexError")       \* line 75
        ELSE
          LET parsed == ParsedRows(kept)
              merged == MergeLeft(Grid(parsed), parsed)
          IN  IF \E k \in 1 .. Len(merged) : ~IsFloatText(merged[k].Event)
              THEN Raised("ValueError")                     \* line 102
              ELSE
                LET ev0 == [k \in 1 .. Len(merged) |-> EventCode(merged[k].Event)]
                    ev1 == InferGaps(ev0)
                    ev2 == [k \in 1 .. Len(ev1) |-> EventNumber(EventText(ev1[k]))]
                    times == [k \in 1 .. Len(merged) |-> merged[k].Time]
                IN  [exc     |-> "none",
                     table   |-> FinalTable(times, ev2),
                     \* line 175: value_counts().get('-1', 0)
                     missing |-> Cardinality({k \in 1 .. Len(ev2) : ev2[k] = Sentinel})]

\* Lines 62-76 when df is still the table of an earlier file: its Event
\* column holds numbers and the text '-1'.  With no text in it the .str
\* accessor raises; otherwise no row matches and .iloc[0] raises.
StaleDf(rows) ==
    LET tail == TailMinus1(rows)
        texts(r) == \E k \in 1 .. Len(r) : r[k].Event = Sentinel
    IN  IF texts(tail) \/ (tail = <<>> /\ texts(rows))
        THEN Raised("IndexError")                           \* line 75
        ELSE Raised("AttributeError")                       \* line 66

\* The body of the for loop, lines 41-217, on the lines of one file, with
\* dfprev the value df has when the iteration starts.
LabelsBody(lines, dfprev) ==
    LET table == LabelsTable(lines)
    IN  IF table = <<>> THEN Raised("IndexError")           \* line 54
        ELSE
          LET col_num == Len(table[1])
          IN  IF col_num \in {5, 6}
              THEN IF \E j \in 1 .. Len(table) : Len(table[j]) > col_num
                   THEN Raised("ValueError")                \* lines 56, 59
                   ELSE Normalise(TailMinus1(Frame(table, col_num)))
              ELSE IF dfprev.kind = "unbound"
                   THEN Raised("NameError")                 \* line 62
                   ELSE StaleDf(dfprev.rows)

InitLabels ==
    /\ lpc = "top"
    /\ lnfiles \in 1 .. MaxFiles
    /\ lpos = 0
    /\ lin = <<>>
    /\ df = Unbound
    /\ lout = <<>>
    /\ lmissing = 0
    /\ lexc = "none"

IdleLabels ==
    /\ lpc = "idle"
    /\ lnfiles = 0
    /\ lpos = 0
    /\ lin = <<>>
    /\ df = Unbound
    /\ lout = <<>>
    /\ lmissing = 0
    /\ lexc = "none"

\* Line 39-40: the for statement takes the next entry, a .txt file.
LabelsNextFile ==
    /\ lpc = "top"
    /\ lpos < lnfiles
    /\ \E t \in Transcripts : lin' = t
    /\ lpos' = lpos + 1
    /\ lpc' = "body"
    /\ UNCHANGED <<lnfiles, df, lout, lmissing, lexc, ivars, jvars, evars, fvars>>

\* Line 40: an entry that does not end in .txt is passed over.
LabelsSkipEntry ==
    /\ lpc = "top"
    /\ lpos < lnfiles
    /\ lpos' = lpos + 1
    /\ UNCHANGED <<lpc, lnfiles, lin, df, lout, lmissing, lexc, ivars, jvars, evars, fvars>>

\* Lines 41-217.  Nothing in the script catches an exception: one raised
\* here ends the script.
LabelsFile ==
    /\ lpc = "body"
    /\ LET r == LabelsBody(lin, df)
       IN  IF r.exc = "none"
           THEN /\ lpc' = "bottom"
                /\ df' = [kind |-> "table", rows |-> r.table]
                /\ lout' = r.table
                /\ lmissing' = r.missing
                /\ lexc' = lexc
           ELSE /\ lpc' = "aborted"
                /\ lexc' = r.exc
                /\ df' = Unbound      \* the process has ended
                /\ UNCHANGED <<lout, lmissing>>
    /\ UNCHANGED <<lnfiles, lpos, lin, ivars, jvars, evars, fvars>>

\* The end of one iteration: control returns to the for statement.
LabelsEndIteration ==
    /\ lpc = "bottom"
    /\ lpc' = "top"
    /\ lin' = <<>>
    /\ lout' = <<>>
    /\ lmissing' = 0
    /\ UNCHANGED <<lnfiles, lpos, df, lexc, ivars, jvars, evars, fvars>>

\* The directory listing is exhausted.
LabelsExit ==
    /\ lpc = "top"
    /\ lpos = lnfiles
    /\ lpc' = "done"
    /\ UNCHANGED <<lnfiles, lpos, lin, df, lout, lmissing, lexc, ivars, jvars, evars, fvars>>

NextLabels ==
    \/ LabelsNextFile
    \/ LabelsSkipEntry
    \/ LabelsFile
    \/ LabelsEndIteration
    \/ LabelsExit

(***************************************************************************)
(* preprocessing/join_data.py.  A recording is a label file and a sample   *)
(* file.  Times are counted in half seconds so that int() of line 53 has   *)
(* something to truncate.  A sample is named by its 0-based index in the   *)
(* sample file, and a block of consecutive samples by its first index and  *)
(* its length.                                                             *)
(***************************************************************************)
BaseTimeline == <<0, 0, 1, 2, Sentinel, 5, 3, 4>>

Recordings ==
    [ fault    : {"none", "labels", "ppg"},   \* which read_csv call raises
      events   : {SubSeq(BaseTimeline, 1, n) : n \in 0 .. MaxLabels},
      labelTod : {60},                        \* labels.iloc[0, 0], seconds
      today    : {0, 1},                      \* the day of the run
      start2   : 118 .. 122,
                                              \* start_datetime, half seconds
      freq     : {128, 256},                  \* the stated sampling frequency
      nsamples : {f * epoch_seconds * sample_rate + r :
                    f \in 0 .. MaxEpochs, r \in {0, 200}} ]

\* Line 49: pd.to_datetime of a time of day gives that time on the day of
\* the run.  In half seconds.
LabelStart2(rec) == 2 * (rec.today * DaySeconds + rec.labelTod)

\* int(): truncation towards zero of a number of half seconds.
IntSeconds(halves) ==
    IF halves >= 0 THEN halves \div 2 ELSE 0 - ((0 - halves) \div 2)

\* Line 53.
Difference(rec) == IntSeconds(LabelStart2(rec) - rec.start2)

\* A plausible slip: the test of line 57 is off by one second.
MisalignedLoose(difference) == difference < 0 - 1

\* Line 57/60: the else branch.
Misaligned(difference) == difference < 0

\* data.iloc[a:b] on n rows: the block of rows a .. min(b, n) - 1.
ILoc(n, a, b) ==
    [first |-> Min(a, n),
     count |-> IF Min(b, n) > Min(a, n) THEN Min(b, n) - Min(a, n) ELSE 0]

\* A plausible slip: the samples are sliced by the sampling frequency stated
\* in the file.
IntervalSamplesOfFile(rec) == epoch_seconds * rec.freq

\* 30 * sample_rate of lines 66, 76, 80, 81.
IntervalSamples(rec) == epoch_seconds * sample_rate

\* Line 59: data_trimmed, which nothing reads afterwards.
DataTrimmed(rec) ==
    ILoc(rec.nsamples, Difference(rec) * sample_rate, rec.nsamples)

\* A plausible slip: a last, partial block of samples is counted as a block.
MaxSupportedLabelsRoundedUp(rec) ==
    (rec.nsamples + IntervalSamples(rec) - 1) \div IntervalSamples(rec)

\* Line 66.
MaxSupportedLabels(rec) == rec.nsamples \div IntervalSamples(rec)

\* Lines 68-73.
NumberOfLabels(rec) ==
    IF MaxSupportedLabels(rec) >= Len(rec.events)
    THEN Len(rec.events)
    ELSE MaxSupportedLabels(rec)

\* Lines 80-82: the block copied into column i (0-based).
EpochBlock(rec, i) ==
    ILoc(rec.nsamples, i * IntervalSamples(rec), (i + 1) * IntervalSamples(rec))

\* Line 82: numpy accepts a block of the column's length, or of length 1.
BlockFits(rec, i) == EpochBlock(rec, i).count \in {IntervalSamples(rec), 1}

\* Lines 76-82.
Stages(rec) ==
    [nrows |-> 1 + IntervalSamples(rec),
     cols  |-> [k \in 1 .. NumberOfLabels(rec) |->
                    [label |-> rec.events[k],
                     first |-> EpochBlock(rec, k - 1).first,
                     count |-> EpochBlock(rec, k - 1).count]]]

NoMatrix == [nrows |-> 0, cols |-> <<>>]

\* Lines 41-85: how the try block ends, and the matrix it writes.
JoinBody(rec) ==
    IF rec.fault = "labels"
    THEN [res |-> "raised", exc |-> "FileNotFoundError", matrix |-> NoMatrix]
    ELSE IF rec.fault = "ppg"
    THEN [res |-> "raised", exc |-> "ParserError", matrix |-> NoMatrix]
    ELSE IF rec.events = <<>>
    THEN [res |-> "raised", exc |-> "IndexError", matrix |-> NoMatrix]
    ELSE IF Misaligned(Difference(rec))
    THEN [res |-> "misaligned", exc |-> "none", matrix |-> NoMatrix]
    ELSE IF \E i \in 0 .. (NumberOfLabels(rec) - 1) : ~BlockFits(rec, i)
    THEN [res |-> "raised", exc |-> "ValueError", matrix |-> NoMatrix]
    ELSE [res |-> "written", exc |-> "none", matrix |-> Stages(rec)]

\* A plausible slip: a handler for one kind of exception only.
CaughtValueErrorOnly(exc) == exc = "ValueError"

\* Line 88: except Exception catches every exception the body raises.
Caught(exc) == TRUE

\* A plausible slip: the misalignment branch continues without logging.
LogMisalignedDropped(failed, name) == failed

\* Line 62.
LogMisaligned(failed, name) == Append(failed, name)

\* Line 90.
LogException(failed, name) == Append(failed, name)

NoRecording ==
    [fault |-> "none", events |-> <<>>, labelTod |-> 0, today |-> 0,
     start2 |-> 0, freq |-> 0, nsamples |-> 0]

InitJoin ==
    /\ jpc = "top"
    /\ jnfiles \in 1 .. MaxFiles
    /\ jpos = 0
    /\ jin = NoRecording
    /\ jout = NoMatrix
    /\ jres = "none"
    /\ failed_files = <<>>
    /\ jwritten = {}

IdleJoin ==
    /\ jpc = "idle"
    /\ jnfiles = 0
    /\ jpos = 0
    /\ jin = NoRecording
    /\ jout = NoMatrix
    /\ jres = "none"
    /\ failed_files = <<>>
    /\ jwritten = {}

\* Line 29, 31: the for statement takes the next entry, a _ppg.csv file.  The
\* entry taken as number k is named k.
JoinNextFile ==
    /\ jpc = "top"
    /\ jpos < jnfiles
    /\ jin' \in Recordings
    /\ jpos' = jpos + 1
    /\ jpc' = "body"
    /\ UNCHANGED <<jnfiles, jout, jres, failed_files, jwritten, ivars, lvars, evars, fvars>>

\* Lines 31-32: an entry that does not end in _ppg.csv is passed over.
JoinSkipEntry ==
    /\ jpc = "top"
    /\ jpos < jnfiles
    /\ jpos' = jpos + 1
    /\ UNCHANGED <<jpc, jnfiles, jin, jout, jres, failed_files, jwritten, ivars, lvars, evars, fvars>>

\* Lines 35-90: the body of the loop for the recording taken.
JoinFile ==
    /\ jpc = "body"
    /\ LET r == JoinBody(jin)
           logged == r.res = "misaligned" \/ (r.res = "raised" /\ Caught(r.exc))
       IN  /\ jout' = r.matrix
           /\ jwritten' = IF r.res = "written" THEN jwritten \cup {jpos}
                          ELSE jwritten
           /\ failed_files' =
                IF r.res = "misaligned"
                THEN LogMisaligned(failed_files, jpos)
                ELSE IF r.res = "raised" /\ Caught(r.exc)
                THEN LogException(failed_files, jpos)
                ELSE failed_files
           /\ jres' = IF r.res = "written" THEN "aligned"
                      ELSE IF r.res = "misaligned" THEN "misaligned"
                      ELSE IF Caught(r.exc) THEN "error"
                      ELSE "uncaught"
           \* an exception no handler catches ends the script
           /\ jpc' = IF r.res = "raised" /\ ~Caught(r.exc) THEN "aborted"
                     ELSE "bottom"
    /\ UNCHANGED <<jnfiles, jpos, jin, ivars, lvars, evars, fvars>>

\* The end of one iteration: control returns to the for statement.
JoinEndIteration ==
    /\ jpc = "bottom"
    /\ jpc' = "top"
    /\ jin' = NoRecording
    /\ jout' = NoMatrix
    /\ jres' = "none"
    /\ UNCHANGED <<jnfiles, jpos, failed_files, jwritten, ivars, lvars, evars, fvars>>

\* Lines 92-96: the listing is exhausted and the failed files are printed.
JoinReport ==
    /\ jpc = "top"
    /\ jpos = jnfiles
    /\ jpc' = "done"
    /\ UNCHANGED <<jnfiles, jpos, jin, jout, jres, failed_files, jwritten, ivars, lvars, evars, fvars>>

NextJoin ==
    \/ JoinNextFile
    \/ JoinSkipEntry
    \/ JoinFile
    \/ JoinEndIteration
    \/ JoinReport

(***************************************************************************)
(* restructure_ppg_data.py.  An EDF file is what the EdfReader calls give  *)
(* for it: the call that raises (if any), its signal labels, and the       *)
(* start date-time, sampling frequency and length of its signals.          *)
(***************************************************************************)
\* str.upper() on the signal labels of the model.
Upper(label) ==
    CASE label = "Pleth" -> "PLETH"
      [] label = "pleth" -> "PLETH"
      [] label = "ecg"   -> "ECG"
      [] OTHER           -> label

LabelLists ==
    {<<"ECG">>, <<"Pleth", "ECG">>, <<"ecg", "PLETH">>, <<"pleth", "PLETH">>}

EdfFiles ==
    [ fault    : {"none", "open", "start", "read", "write"},
      labels   : LabelLists,
      start    : {0, 59},
      freq     : {128, 256},
      nsamples : {0, 3840} ]

\* Line 35: the upper-cased labels.
UpperLabels(f) == [k \in 1 .. Len(f.labels) |-> Upper(f.labels[k])]

\* Line 36.
HasPleth(f) == \E k \in 1 .. Len(f.labels) : UpperLabels(f)[k] = "PLETH"

\* Line 37: list.index, the first position of "PLETH" (1-based here).
PlethIndex(f) ==
    CHOOSE k \in 1 .. Len(f.labels) :
        /\ UpperLabels(f)[k] = "PLETH"
        /\ \A j \in 1 .. (k - 1) : UpperLabels(f)[j] # "PLETH"

NoCsv == [freq |-> 0, start_datetime |-> 0, signal |-> 0, nsamples |-> 0]

\* Lines 42-49: the header lines and the samples of the CSV file.
CsvOf(f) ==
    [freq |-> f.freq, start_datetime |-> f.start, signal |-> PlethIndex(f),
     nsamples |-> f.nsamples]

\* Lines 26-51: how the try block ends for an .edf file, and what it writes.
\* EdfReader(...) raises on an unreadable file (line 32), and the calls of
\* lines 33 and 38 may raise; without a PLETH signal nothing is read (line 50).
EdfBody(f) ==
    IF f.fault = "open" THEN [res |-> "raised", csv |-> NoCsv]
    ELSE IF f.fault = "start" THEN [res |-> "raised", csv |-> NoCsv]
    ELSE IF ~HasPleth(f) THEN [res |-> "nopleth", csv |-> NoCsv]
    ELSE IF f.fault = "read" THEN [res |-> "raised", csv |-> NoCsv]
    ELSE IF f.fault = "write" THEN [res |-> "raised", csv |-> NoCsv]
    ELSE [res |-> "written", csv |-> CsvOf(f)]

\* A plausible slip: the branch without a PLETH signal only prints.
LogNoPlethDropped(failed, name) == failed

\* Line 52.
LogNoPleth(failed, name) == Append(failed, name)

\* Line 56.
LogEdfException(failed, name) == Append(failed, name)

NoEdfFile ==
    [fault |-> "none", labels |-> <<>>, start |-> 0, freq |-> 0, nsamples |-> 0]

InitEdf ==
    /\ epc = "top"
    /\ enfiles \in 1 .. MaxFiles
    /\ epos = 0
    /\ ein = NoEdfFile
    /\ eout = NoCsv
    /\ ppg_failed_files = <<>>
    /\ ewritten = {}

IdleEdf ==
    /\ epc = "idle"
    /\ enfiles = 0
    /\ epos = 0
    /\ ein = NoEdfFile
    /\ eout = NoCsv
    /\ ppg_failed_files = <<>>
    /\ ewritten = {}

\* Lines 24, 26: the for statement takes the next entry, an .edf file.  The
\* entry taken as number k is named k.
EdfNextFile ==
    /\ epc = "top"
    /\ epos < enfiles
    /\ ein' \in EdfFiles
    /\ epos' = epos + 1
    /\ epc' = "body"
    /\ UNCHANGED <<enfiles, eout, ppg_failed_files, ewritten, ivars, lvars, jvars, fvars>>

\* Line 26: for an entry that does not end in .edf the try block does nothing.
EdfSkipEntry ==
    /\ epc = "top"
    /\ epos < enfiles
    /\ epos' = epos + 1
    /\ UNCHANGED <<epc, enfiles, ein, eout, ppg_failed_files, ewritten, ivars, lvars, jvars, fvars>>

\* Lines 25-56: the body of the loop for the .edf file taken.
EdfFile ==
    /\ epc = "body"
    /\ LET r == EdfBody(ein)
       IN  /\ eout' = r.csv
           /\ ewritten' = IF r.res = "written" THEN ewritten \cup {epos}
                          ELSE ewritten
           /\ ppg_failed_files' =
                IF r.res = "nopleth"
                THEN LogNoPleth(ppg_failed_files, epos)
                ELSE IF r.res = "raised"
                THEN LogEdfException(ppg_failed_files, epos)
                ELSE ppg_failed_files
    /\ epc' = "bottom"
    /\ UNCHANGED <<enfiles, epos, ein, ivars, lvars, jvars, fvars>>

\* The end of one iteration: control returns to the for statement.
EdfEndIteration ==
    /\ epc = "bottom"
    /\ epc' = "top"
    /\ ein' = NoEdfFile
    /\ eout' = NoCsv
    /\ UNCHANGED <<enfiles, epos, ppg_failed_files, ewritten, ivars, lvars, jvars, fvars>>

\* Lines 58-61: the listing is exhausted and the failed files are printed.
EdfReport ==
    /\ epc = "top"
    /\ epos = enfiles
    /\ epc' = "done"
    /\ UNCHANGED <<enfiles, epos, ein, eout, ppg_failed_files, ewritten, ivars, lvars, jvars, fvars>>

NextEdf ==
    \/ EdfNextFile
    \/ EdfSkipEntry
    \/ EdfFile
    \/ EdfEndIteration
    \/ EdfReport

(***************************************************************************)
(* filtering_and_preprocessing.py.  The folder it reads is the folder      *)
(* join_data.py writes.  A value of a CSV file is counted in tenths, so    *)
(* that astype(int) has something to truncate; the samples of a column are *)
(* named by the block of the sample file they were cut from.               *)
(***************************************************************************)
\* join_data.py line 85: stages[0, i], an integer stored as a float.
CsvValue(label) == 10 * label

\* An entry of the folder that does not end in .csv.
NotCsv == [nrows |-> 0, row0 |-> <<>>, cols |-> <<>>]

\* The file join_data.py writes for a matrix: its rows, row 0, and the
\* sample blocks of its columns.
MatrixFile(m) ==
    [nrows |-> m.nrows,
     row0  |-> [k \in 1 .. Len(m.cols) |-> CsvValue(m.cols[k].label)],
     cols  |-> [k \in 1 .. Len(m.cols) |->
                    [first |-> m.cols[k].first, count |-> m.cols[k].count]]]

\* The files join_data.py can leave in the folder.
EpochMatrixFiles ==
    {MatrixFile(JoinBody(rec).matrix) :
        rec \in {r \in Recordings : JoinBody(r).res = "written"}}

\* astype(int): truncation towards zero, of a value in tenths.
AsTypeInt(tenths) ==
    IF tenths >= 0 THEN tenths \div 10 ELSE 0 - ((0 - tenths) \div 10)

\* filtfilt pads each end with 3 * max(len(a), len(b)) values; the band-pass
\* filter of order 4 of line 55 has 2 * 4 + 1 coefficients.
FiltPadLen == 3 * (2 * 4 + 1)

\* np.convolve(data, window, mode='same'): max(len(data), len(window)) values.
ConvolveSameLength(n) == IF n >= ma_window_size THEN n ELSE ma_window_size

\* preprocess_epoch (lines 52-62, 101-117, 153-169) on n samples: the number
\* of values it returns, 0 - 1 when filtfilt raises.  The scalers of V2 and
\* V3 return as many values as they are given.
ProcessedLength(variant, n) ==
    IF n <= FiltPadLen THEN 0 - 1 ELSE ConvolveSameLength(n)

\* A plausible slip: row 0 of data_all is left as np.zeros made it.
LabelsRowLeftZero(labels) == [k \in 1 .. Len(labels) |-> 0]

\* Line 85 (139, 191): data_all[0, :] = labels.values.
LabelsRow(labels) == [k \in 1 .. Len(labels) |-> CsvValue(labels[k])]

NoOutput == [nrows |-> 0, row0 |-> <<>>, cols |-> <<>>]

\* Lines 80-96 (132-148, 184-200): one .csv file in one of the loops.
FilterBody(variant, file) ==
    IF Len(file.row0) = 0
    THEN [exc |-> "EmptyDataError", matrix |-> NoOutput]    \* line 80
    ELSE
      LET labels == [k \in 1 .. Len(file.row0) |-> AsTypeInt(file.row0[k])]
          n == ProcessedLength(variant, file.nrows - 1)
      IN  IF n = 0 - 1 \/ n \notin {fs * epoch_duration, 1}
          THEN [exc |-> "ValueError", matrix |-> NoOutput]  \* lines 56, 90
          ELSE [exc |-> "none",
                matrix |->
                  [nrows |-> fs * epoch_duration + 1,
                   row0  |-> LabelsRow(labels),
                   cols  |-> [k \in 1 .. Len(labels) |->
                                [variant |-> variant,
                                 first |-> file.cols[k].first,
                                 count |-> n]]]]

InitFilter ==
    /\ fpc = "top"
    /\ fvariant = 1
    /\ \E n \in 1 .. MaxFiles : fdir \in [1 .. n -> EpochMatrixFiles \cup {NotCsv}]
    /\ fpos = 0
    /\ fout = NoOutput
    /\ fwritten = {}
    /\ fexc = "none"

IdleFilter ==
    /\ fpc = "idle"
    /\ fvariant = 0
    /\ fdir = <<>>
    /\ fpos = 0
    /\ fout = NoOutput
    /\ fwritten = {}
    /\ fexc = "none"

\* Lines 75-76 (126-127, 178-179): the for statement takes the next entry, a
\* .csv file.
FilterNextFile ==
    /\ fpc = "top"
    /\ fpos < Len(fdir)
    /\ fdir[fpos + 1] # NotCsv
    /\ fpos' = fpos + 1
    /\ fpc' = "body"
    /\ UNCHANGED <<fvariant, fdir, fout, fwritten, fexc, ivars, lvars, jvars, evars>>

\* Line 76: an entry that does not end in .csv is passed over.
FilterSkipEntry ==
    /\ fpc = "top"
    /\ fpos < Len(fdir)
    /\ fdir[fpos + 1] = NotCsv
    /\ fpos' = fpos + 1
    /\ UNCHANGED <<fpc, fvariant, fdir, fout, fwritten, fexc, ivars, lvars, jvars, evars>>

\* Lines 77-96.  Nothing in the script catches an exception: one raised here
\* ends the script.
FilterFile ==
    /\ fpc = "body"
    /\ LET r == FilterBody(fvariant, fdir[fpos])
       IN  IF r.exc = "none"
           THEN /\ fpc' = "bottom"
                /\ fout' = r.matrix
                /\ fwritten' = fwritten \cup {<<fvariant, fpos>>}
                /\ fexc' = fexc
           ELSE /\ fpc' = "aborted"
                /\ fexc' = r.exc
                /\ UNCHANGED <<fout, fwritten>>
    /\ UNCHANGED <<fvariant, fdir, fpos, ivars, lvars, jvars, evars>>

\* The end of one iteration: control returns to the for statement.
FilterEndIteration ==
    /\ fpc = "bottom"
    /\ fpc' = "top"
    /\ fout' = NoOutput
    /\ UNCHANGED <<fvariant, fdir, fpos, fwritten, fexc, ivars, lvars, jvars, evars>>

\* The listing is exhausted: the next of the three loops starts (lines 99,
\* 151) on the same folder.
FilterNextVariant ==
    /\ fpc = "top"
    /\ fpos = Len(fdir)
    /\ fvariant < 3
    /\ fvariant' = fvariant + 1
    /\ fpos' = 0
    /\ UNCHANGED <<fpc, fdir, fout, fwritten, fexc, ivars, lvars, jvars, evars>>

\* The third loop is over.
FilterExit ==
    /\ fpc = "top"
    /\ fpos = Len(fdir)
    /\ fvariant = 3
    /\ fpc' = "done"
    /\ UNCHANGED <<fvariant, fdir, fpos, fout, fwritten, fexc, ivars, lvars, jvars, evars>>

NextFilter ==
    \/ FilterNextFile
    \/ FilterSkipEntry
    \/ FilterFile
    \/ FilterEndIteration
    \/ FilterNextVariant
    \/ FilterExit

NextInfer == InferStep \/ InferExit

(***************************************************************************)
(* The specifications.                                                     *)
(***************************************************************************)
InitSpecInfer == InitInfer /\ IdleLabels /\ IdleJoin /\ IdleEdf /\ IdleFilter

SpecInfer == InitSpecInfer /\ [][NextInfer]_vars

InitSpecLabels == IdleInfer /\ InitLabels /\ IdleJoin /\ IdleEdf /\ IdleFilter

SpecLabels == InitSpecLabels /\ [][NextLabels]_vars

InitSpecJoin == IdleInfer /\ IdleLabels /\ InitJoin /\ IdleEdf /\ IdleFilter

SpecJoin == InitSpecJoin /\ [][NextJoin]_vars

InitSpecEdf == IdleInfer /\ IdleLabels /\ IdleJoin /\ InitEdf /\ IdleFilter

SpecEdf == InitSpecEdf /\ [][NextEdf]_vars

InitSpecFilter == IdleInfer /\ IdleLabels /\ IdleJoin /\ IdleEdf /\ InitFilter

SpecFilter == InitSpecFilter /\ [][NextFilter]_vars

\* The scripts side by side.
Init == InitInfer /\ InitLabels /\ InitJoin /\ InitEdf /\ InitFilter

Next == NextInfer \/ NextLabels \/ NextJoin \/ NextEdf \/ NextFilter

Spec == Init /\ [][Next]_vars

(***************************************************************************)
(* The claims.                                                             *)
(***************************************************************************)
Range(f) == {f[k] : k \in DOMAIN f}

\* The recording of the current iteration was read without an exception.
JoinRead == jin.fault = "none" /\ jin.events # <<>>

\* The body of the loop has run for the recording taken.
JoinRan == jpc \in {"bottom", "aborted"}

\* C1: when the offset label_start - signal_start is >= 0 seconds, column i
\* of the matrix written holds the raw samples
\* [offset*sample_rate + i*interval_samples,
\*  offset*sample_rate + (i+1)*interval_samples), in order.
C1_OffsetAlignment ==
    (JoinRan /\ jres = "aligned" /\ Difference(jin) >= 0) =>
        \A k \in 1 .. Len(jout.cols) :
            /\ jout.cols[k].first =
                    Difference(jin) * sample_rate
                    + (k - 1) * epoch_seconds * sample_rate
            /\ jout.cols[k].count = epoch_seconds * sample_rate

\* C2: the matrix has min(number of labels, floor(len(trimmed)/interval
\* samples)) columns, trimmed being the raw stream less its offset*sample_rate
\* leading samples, and row 0 of column i is the stage of the i-th label row;
\* 4 labels 0,0,1,2 over 4*30*128 samples at offset 0 give shape (3841, 4).
C2_Truncation ==
    (JoinRan /\ jres = "aligned") =>
        /\ Len(jout.cols) =
              Min(Len(jin.events),
                  DataTrimmed(jin).count \div (epoch_seconds * sample_rate))
        /\ \A k \in 1 .. Len(jout.cols) : jout.cols[k].label = jin.events[k]
        /\ (/\ jin.events = <<0, 0, 1, 2>>
            /\ jin.nsamples = 4 * 30 * 128
            /\ Difference(jin) = 0)
           => (jout.nrows = 3841 /\ Len(jout.cols) = 4)

HmsSeconds(hms) == hms[1] * 3600 + hms[2] * 60 + hms[3]

\* C4: in every table the normaliser writes, each two consecutive
\* timestamps differ by exactly 30 seconds (past midnight: by 30 seconds on
\* the clock), also when the transcript repeats a timestamp.
C4_GridRegularity ==
    lpc = "bottom" =>
        \A k \in 1 .. (Len(lout) - 1) :
            (HmsSeconds(lout[k + 1].Time) - HmsSeconds(lout[k].Time))
                % DaySeconds = interval

\* The rows the parser retains, as (datetime, event text), for a transcript
\* that is normalised.
RetainedRows(lines) ==
    LET table == LabelsTable(lines)
    IN  ParsedRows(FilterEvents(TailMinus1(Frame(table, Len(table[1])))))

\* C5: the table has floor((end - start)/30 s) + 1 rows, start and end the
\* times of the first and last parsed rows, end a day later when it is the
\* earlier time of day.
C5_TimelineLength ==
    lpc = "bottom" =>
        LET parsed == RetainedRows(lin)
            start == parsed[1].Time
            end == parsed[Len(parsed)].Time
            span == IF TimeOfDay(end) < TimeOfDay(start)
                    THEN end + DaySeconds - start
                    ELSE end - start
        IN  /\ Len(lout) = span \div 30 + 1
            /\ Len(lout) >= 1

Map2 == [c \in StageCodes |-> IF c = Sentinel THEN Sentinel
                              ELSE IF c = 0 THEN 0 ELSE 1]
Map3 == [c \in StageCodes |-> IF c = Sentinel THEN Sentinel
                              ELSE IF c = 0 THEN 0
                              ELSE IF c \in 1 .. 4 THEN 1 ELSE 2]
Map4 == [c \in StageCodes |-> IF c = Sentinel THEN Sentinel
                              ELSE IF c = 0 THEN 0
                              ELSE IF c \in {1, 2} THEN 1
                              ELSE IF c \in {3, 4} THEN 2 ELSE 3]
Map5 == [c \in StageCodes |-> IF c = Sentinel THEN Sentinel
                              ELSE IF c \in {0, 1, 2} THEN c
                              ELSE IF c \in {3, 4} THEN 3 ELSE 4]

\* C7: in every row written the four grouping columns are the fixed maps of
\* the row's stage, -1 to -1, and the chains of replacements give these maps
\* for every stage code.
C7_GroupingConsistency ==
    /\ \A c \in StageCodes :
          /\ SleepWake(c) = Map2[c]
          /\ Stages3(c) = Map3[c]
          /\ Stages4(c) = Map4[c]
          /\ Stages5(c) = Map5[c]
    /\ lpc = "bottom" =>
          \A k \in 1 .. Len(lout) :
              /\ lout[k].Event \in StageCodes
              /\ lout[k].sleep_wake = Map2[lout[k].Event]
              /\ lout[k].stages3 = Map3[lout[k].Event]
              /\ lout[k].stages4 = Map4[lout[k].Event]
              /\ lout[k].stages5 = Map5[lout[k].Event]

\* A table with a deep-sleep row, a legacy stage-4 row and a row without
\* label was written.
C7_Witness ==
    /\ lpc = "bottom"
    /\ \E a, b, c \in 1 .. Len(lout) :
          /\ lout[a].Event = 3 /\ lout[a].stages4 = 2
          /\ lout[b].Event = Sentinel /\ lout[b].sleep_wake = Sentinel
          /\ lout[c].Event = 4 /\ lout[c].stages5 = 3

\* C8 as stated: the matrix has 1 + sample_rate*30 rows, sample_rate the
\* sampling frequency of the recording's sample file, and no more columns
\* than the label file has rows.
C8_ShapeOfRecordingRate ==
    (JoinRan /\ jres = "aligned") =>
        /\ jout.nrows = 1 + jin.freq * 30
        /\ Len(jout.cols) <= Len(jin.events)

\* C8 as amended: the matrix has 1 + 128*30 = 3841 rows whatever sampling
\* frequency the sample file states, and no more columns than the label
\* file has rows.
C8_ShapeInvariant ==
    (JoinRan /\ jres = "aligned") =>
        /\ jout.nrows = 1 + 128 * 30
        /\ Len(jout.cols) <= Len(jin.events)
        /\ \A k \in 1 .. Len(jout.cols) : jout.cols[k].count = jout.nrows - 1

\* A matrix was written for a recording stated at 256 Hz, with fewer
\* columns than labels.
C8_Witness ==
    /\ jpc = "bottom"
    /\ jres = "aligned"
    /\ jin.freq = 256
    /\ jout.nrows = 3841
    /\ Len(jout.cols) >= 1
    /\ Len(jout.cols) < Len(jin.events)

\* C9: an exception raised while a recording is read or combined is caught
\* for that recording: it is put in the failure log, nothing is written for
\* it, and the script ends only when the listing is exhausted.
C9_ExceptionBoundary ==
    /\ jpc # "aborted"
    /\ jpc = "done" => jpos = jnfiles
    /\ (JoinRan /\ JoinBody(jin).res = "raised") =>
          /\ jpc = "bottom"
          /\ jres = "error"
          /\ jout = NoMatrix
          /\ jpos \notin jwritten
          /\ jpos \in Range(failed_files)

\* A recording raised, was logged, and another entry remains.
C9_Witness ==
    /\ jpc = "bottom"
    /\ jres = "error"
    /\ JoinBody(jin).res = "raised"
    /\ jpos \in Range(failed_files)
    /\ jpos < jnfiles

\* The transcript has no marker line, or its first retained row has neither
\* 5 nor 6 fields.
ParseError(lines) ==
    \/ LabelsTable(lines) = <<>>
    \/ Len(LabelsTable(lines)[1]) \notin {5, 6}

\* C10: a transcript with a parse error is skipped on its own: the error
\* does not end the script while transcripts remain.
C10_ParseErrorsRecordingScoped ==
    ~(lpc = "aborted" /\ ParseError(lin) /\ lpos < lnfiles)

\* Number of entries of a list equal to x.
Count(s, x) == Cardinality({k \in 1 .. Len(s) : s[k] = x})

\* What C11 says of every state of the batch run.
C11_OutcomeState ==
    /\ jwritten \subseteq 1 .. jpos
    /\ Range(failed_files) \subseteq 1 .. jpos
    /\ \A k \in 1 .. jnfiles :
          /\ ~(k \in jwritten /\ k \in Range(failed_files))
          /\ Count(failed_files, k) <= 1
    /\ JoinRan =>
          \/ /\ jres = "aligned"
             /\ jpos \in jwritten
             /\ jpos \notin Range(failed_files)
          \/ /\ jres \in {"misaligned", "error"}
             /\ jout = NoMatrix
             /\ jpos \notin jwritten
             /\ Count(failed_files, jpos) = 1

\* What C11 says of every step of the batch run.
C11_OutcomeStep ==
    /\ jpos' \in {jpos, jpos + 1}
    /\ jwritten \subseteq jwritten'
    /\ \/ failed_files' = failed_files
       \/ failed_files' = Append(failed_files, jpos)
    /\ (jwritten' # jwritten \/ failed_files' # failed_files) =>
          /\ jpc = "body"
          /\ jpos' = jpos
          /\ jpos \notin jwritten
          /\ jpos \notin Range(failed_files)

\* C11: every recording ends in exactly one of aligned (matrix written, not
\* in the failure log), skipped as misaligned or skipped on error (no matrix,
\* in the failure log exactly once); no recording is processed twice and the
\* failure log only grows by appends.
C11_TerminalOutcome == [](C11_OutcomeState) /\ [][C11_OutcomeStep]_vars

\* The batch ended with one recording aligned and one in the failure log.
C11_Witness ==
    /\ jpc = "done"
    /\ jwritten # {}
    /\ Len(failed_files) = 1
    /\ jwritten \cap Range(failed_files) = {}

\* C12: every entry of the failure list carries a reason that tells a
\* misalignment skip from a read/parse error skip: the entry the misalignment
\* branch writes for a recording differs from the one the exception handler
\* writes for it.
C12_FailureReasons ==
    (JoinRan /\ jres \in {"misaligned", "error"}) =>
        LET before == SubSeq(failed_files, 1, Len(failed_files) - 1)
        IN  /\ failed_files \in {LogMisaligned(before, jpos),
                                 LogException(before, jpos)}
            /\ LogMisaligned(before, jpos) # LogException(before, jpos)

\* The six sleep-stage event tokens.
SixTokens ==
    {"SLEEP-S0", "SLEEP-S1", "SLEEP-S2", "SLEEP-S3", "SLEEP-S4", "SLEEP-REM"}

\* C13: the parser retains a row if and only if its Event field is one of
\* the six tokens SLEEP-S0 .. SLEEP-S4, SLEEP-REM, so every retained row is
\* converted to a stage code in 0..5 and the conversion of line 102 does not
\* raise.
C13_EventFilter ==
    (lpc \in {"bottom", "aborted"} /\ ~ParseError(lin)) =>
        LET table == LabelsTable(lin)
            rows == TailMinus1(Frame(table, Len(table[1])))
            kept == FilterEvents(rows)
        IN  /\ kept = SelectSeq(rows, LAMBDA r : r.Event.s \in SixTokens)
            /\ \A k \in 1 .. Len(kept) :
                  EventCode(kept[k].Event.s) \in RealStages
            /\ lexc # "ValueError"

\* C14: the inference loop never changes a real label: at every point of
\* the loop a position that held a stage in 0..5 before the loop holds the
\* same stage, so only positions that held -1 can differ.
C14_RealLabelsKept ==
    /\ Len(ievent) = Len(iorig)
    /\ \A k \in 1 .. Len(iorig) :
          /\ iorig[k] \in RealStages => ievent[k] = iorig[k]
          /\ ievent[k] # iorig[k] => iorig[k] = Sentinel

\* The loop filled a gap in a column that holds two different real stages.
C14_Witness ==
    /\ ipc = "done"
    /\ \E i \in 1 .. Len(iorig) : iorig[i] = Sentinel /\ ievent[i] \in RealStages
    /\ \E j, k \in 1 .. Len(iorig) :
          /\ iorig[j] = 0 /\ ievent[j] = 0
          /\ iorig[k] = 1 /\ ievent[k] = 1

\* C15: the result for a transcript (the table written, or the failure) is
\* the one the transcript gives when it is processed alone, with no variable
\* left by an earlier file: whatever files came before it in the batch.
C15_NoSharedState ==
    LET alone == LabelsBody(lin, Unbound)
    IN  /\ lpc = "bottom" => (alone.exc = "none" /\ lout = alone.table
                              /\ lmissing = alone.missing)
        /\ lpc = "aborted" => lexc = alone.exc

\* C16: for a given label file and sample file the offset and the outcome
\* (aligned with a given matrix, skipped as misaligned, skipped on error) are
\* the same whatever the day on which the script runs.
C16_RunDateIndependent ==
    JoinRan =>
        \A day \in {0, 1} :
            LET other == [jin EXCEPT !.today = day]
            IN  /\ JoinRead => Difference(other) = Difference(jin)
                /\ JoinBody(other).matrix = jout
                /\ (JoinBody(other).res = "written") = (jres = "aligned")
                /\ (JoinBody(other).res = "misaligned") = (jres = "misaligned")
                /\ (JoinBody(other).res = "raised") = (jres = "error")

\* The transcript of the current iteration has a 5- or 6-column table with
\* at least one retained row, every retained row with one of the six tokens.
WellFormed(lines) ==
    /\ ~ParseError(lines)
    /\ LET table == LabelsTable(lines)
           kept == FilterEvents(TailMinus1(Frame(table, Len(table[1]))))
       IN  /\ kept # <<>>
           /\ \A k \in 1 .. Len(kept) : kept[k].Event.s \in SixTokens

\* C17: the table written has one row per grid point, in grid order, the
\* rows still -1 after inference included; the reported count of missing
\* values is the number of its rows whose stage is -1; and a transcript is
\* written whatever that count is.
C17_SentinelRowsStay ==
    /\ lpc = "bottom" =>
          LET grid == Grid(RetainedRows(lin))
          IN  /\ Len(lout) = Len(grid)
              /\ \A k \in 1 .. Len(lout) : lout[k].Time = Strftime(grid[k])
              /\ lmissing = Cardinality({k \in 1 .. Len(lout) :
                                            lout[k].Event = Sentinel})
    /\ (lpc \in {"bottom", "aborted"} /\ WellFormed(lin)) => lpc = "bottom"

\* Position, in a header line, of the field with the given name.
Column(header, name) ==
    CHOOSE k \in 1 .. Len(header) : header[k].s = name

\* The rows a transcript states: the lines after its first marker line, with
\* the fields its header line names Time [hh:mm:ss] and Event.
StatedRows(lines) ==
    LET m == FirstMarker(lines)
        header == lines[m].fields
    IN  [j \in 1 .. (Len(lines) - m) |->
            [Time  |-> lines[m + j].fields[Column(header, "Time [hh:mm:ss]")],
             Event |-> lines[m + j].fields[Column(header, "Event")]]]

\* A line without its second field.
DropSecond(line) ==
    [marker |-> line.marker,
     fields |-> <<line.fields[1]>> \o SubSeq(line.fields, 3, Len(line.fields))]

\* A 6-column transcript in the 5-column layout: the header line and the
\* lines after it lose the Position field.
DropPosition(lines) ==
    [k \in 1 .. Len(lines) |->
        IF k >= FirstMarker(lines) THEN DropSecond(lines[k]) ELSE lines[k]]

\* The transcript has a marker line with 5 or 6 fields.
HasTable(lines) ==
    /\ FirstMarker(lines) # 0
    /\ Len(lines[FirstMarker(lines)].fields) \in {5, 6}

\* C18: the parser discards the lines before the first line containing
\* "Sleep Stage", reads that line and the lines after it as rows, drops the
\* header row, takes the layout from the field count of the marker line, and
\* in the 6-column layout drops Position, so that Time and Event, and with
\* them the result of the file, are those of the 5-column layout.
C18_TableExtraction ==
    (lpc \in {"bottom", "aborted"} /\ HasTable(lin)) =>
        LET table == LabelsTable(lin)
            rows == TailMinus1(Frame(table, Len(table[1])))
            stated == Normalise(StatedRows(lin))
        IN  /\ Len(table) = Len(lin) - FirstMarker(lin) + 1
            /\ rows = StatedRows(lin)
            /\ lpc = "bottom" => (stated.exc = "none" /\ lout = stated.table)
            /\ lpc = "aborted" => lexc = stated.exc
            /\ Len(table[1]) = 6 =>
                  LET five == LabelsTable(DropPosition(lin))
                  IN  /\ Len(five[1]) = 5
                      /\ rows = TailMinus1(Frame(five, 5))

\* A 6-column transcript with a preamble line was parsed and written.
C18_Witness ==
    /\ lpc = "bottom"
    /\ FirstMarker(lin) = 2
    /\ Len(lin[2].fields) = 6
    /\ Len(lin) > 2
    /\ Len(lout) >= 1

\* The EDF file of the current iteration has no PLETH signal, or one of the
\* EdfReader calls made for it raises.
EdfUnreadable(f) ==
    \/ f.fault \in {"open", "start"}
    \/ ~HasPleth(f)
    \/ f.fault = "read"

\* C19: an EDF file with no PLETH signal, or whose reading raises, gets no
\* CSV file and is in failed_files exactly once; a file that is converted is
\* never in failed_files; and in both cases the loop goes on to the next
\* entry, the script ending only when the listing is exhausted.
C19_EdfFailureLog ==
    /\ epc \in {"idle", "top", "body", "bottom", "done"}
    /\ epc = "done" => epos = enfiles
    /\ ewritten \cap Range(ppg_failed_files) = {}
    /\ \A k \in 1 .. enfiles : Count(ppg_failed_files, k) <= 1
    /\ epc = "bottom" =>
          /\ EdfUnreadable(ein) =>
                /\ eout = NoCsv
                /\ epos \notin ewritten
                /\ Count(ppg_failed_files, epos) = 1
          /\ eout # NoCsv =>
                /\ epos \in ewritten
                /\ epos \notin Range(ppg_failed_files)
                /\ eout.freq = ein.freq
                /\ eout.start_datetime = ein.start

\* A file without a PLETH signal was logged after another file had been
\* converted.
C19_Witness ==
    /\ epc = "bottom"
    /\ ein.fault = "none"
    /\ ~HasPleth(ein)
    /\ ewritten # {}
    /\ ppg_failed_files = <<epos>>

\* What a pure pass gives at index i: the loop body applied to the column as
\* it was before the loop.
PureAt(orig, i) ==
    IF i \in InferRange(orig) THEN InferBody(orig, i)[i + 1] ELSE orig[i + 1]

\* C20: the in-place, left-to-right loop gives at every index it has passed
\* what a pure pass gives there from positions i-3..i+3 of the column before
\* the loop, and when it fills a position no row of that window has been
\* filled earlier in the loop.
C20_OrderIndependence ==
    /\ \A i \in 0 .. (Len(iorig) - 1) :
          (ipc = "done" \/ i < ii) => ievent[i + 1] = PureAt(iorig, i)
    /\ (ipc = "loop" /\ ii \in InferRange(ievent)
          /\ InferBody(ievent, ii) # ievent) =>
          \A k \in (ii - window_size) .. (ii + window_size) :
              ievent[k + 1] = iorig[k + 1]

\* The loop filled two gaps, one after the other.
C20_Witness ==
    /\ ipc = "done"
    /\ \E i, j \in 1 .. Len(iorig) :
          /\ i < j
          /\ iorig[i] = Sentinel /\ ievent[i] # Sentinel
          /\ iorig[j] = Sentinel /\ ievent[j] # Sentinel

\* C21: for every column i < N of a matrix written, the slice
\* [i*interval_samples, (i+1)*interval_samples) lies inside the sample stream
\* that is sliced, the column receives exactly interval_samples samples, and
\* the column assignment raises no shape mismatch for any recording.
C21_NoReadPastStream ==
    /\ (JoinRan /\ jres = "aligned") =>
          \A k \in 1 .. Len(jout.cols) :
              /\ jout.cols[k].first = (k - 1) * epoch_seconds * sample_rate
              /\ jout.cols[k].count = epoch_seconds * sample_rate
              /\ jout.cols[k].first + jout.cols[k].count <= jin.nsamples
    /\ (JoinRan /\ JoinRead /\ Difference(jin) >= 0) =>
          /\ jres = "aligned"
          /\ Len(jout.cols) = Min(Len(jin.events),
                                  jin.nsamples \div (epoch_seconds * sample_rate))

\* A matrix was written for a sample file that ends in a partial block and
\* has fewer whole blocks than the label file has rows.
C21_Witness ==
    /\ jpc = "bottom"
    /\ jres = "aligned"
    /\ jin.nsamples % (epoch_seconds * sample_rate) # 0
    /\ Len(jout.cols) >= 2
    /\ Len(jout.cols) < Len(jin.events)

\* C22: every row the parser retains is in the table written, at its own
\* time with its own stage, and a grid point holds -1 before inference only
\* if no parsed row has its time of day.
C22_NoLabelLost ==
    lpc = "bottom" =>
        LET parsed == RetainedRows(lin)
            merged == MergeLeft(Grid(parsed), parsed)
        IN  /\ \A k \in 1 .. Len(parsed) :
                  \E j \in 1 .. Len(lout) :
                      /\ lout[j].Time = Strftime(parsed[k].Time)
                      /\ lout[j].Event = EventCode(parsed[k].Event)
            /\ \A j \in 1 .. Len(merged) :
                  merged[j].Event = "-1" =>
                      \A k \in 1 .. Len(parsed) :
                          TimeOfDay(parsed[k].Time) # merged[j].Time

\* C23: the inference loop run a second time on its own result changes no
\* position, whatever the column it started from.
C23_Idempotent ==
    ipc = "done" =>
        /\ InferGaps(ievent) = ievent
        /\ \A i \in InferRange(ievent) : InferBody(ievent, i) = ievent

\* The loop filled one gap and left a gap it visited, next to another gap.
C23_Witness ==
    /\ ipc = "done"
    /\ \E i \in 1 .. Len(iorig) : iorig[i] = Sentinel /\ ievent[i] # Sentinel
    /\ \E j \in InferRange(ievent) :
          /\ ievent[j + 1] = Sentinel
          /\ ievent[j + 2] = Sentinel

\* C24: each matrix the three loops write for an epoch matrix has the
\* columns of its input, fs*epoch_duration + 1 rows as its input has, and the
\* input's row 0, every processed epoch in the column of its own label; when
\* the run ends every epoch matrix of the folder has its three outputs.
C24_FilterKeepsLabelsAndShape ==
    /\ fpc = "bottom" =>
          LET file == fdir[fpos]
          IN  /\ fout.nrows = fs * epoch_duration + 1
              /\ fout.nrows = file.nrows
              /\ Len(fout.cols) = Len(file.cols)
              /\ Len(fout.row0) = Len(file.row0)
              /\ fout.row0 = file.row0
              /\ \A k \in 1 .. Len(fout.cols) :
                    /\ fout.cols[k].variant = fvariant
                    /\ fout.cols[k].first = file.cols[k].first
                    /\ fout.cols[k].count = file.nrows - 1
    /\ fpc = "aborted" => Len(fdir[fpos].row0) = 0
    /\ fpc = "done" =>
          \A k \in 1 .. Len(fdir) :
              fdir[k] # NotCsv =>
                  \A v \in 1 .. 3 : <<v, k>> \in fwritten

\* The third loop wrote a matrix of three or more columns, one of them with
\* a stage other than wake, after the first two loops had written theirs.
C24_Witness ==
    /\ fpc = "bottom"
    /\ fvariant = 3
    /\ Len(fout.cols) >= 3
    /\ \E k \in 1 .. Len(fout.row0) : fout.row0[k] # 0
    /\ <<1, fpos>> \in fwritten
    /\ <<2, fpos>> \in fwritten

=============================================================================
